---- MODULE Spec2Model ----
(***************************************************************************)
(* Model of validate_models.py: the read / parse / structure / entry-pass  *)
(* / report pipeline of validate_models(), and main()'s exit code.         *)
(*                                                                         *)
(* JSON values are records [t, v]: t is the Python type name of the parsed *)
(* value and v its payload as a sequence of integers (character codes for  *)
(* a str, the number for an int, the items for a list).                    *)
(***************************************************************************)
EXTENDS Integers, Sequences, FiniteSets, TLC

\* ---------------------------------------------------------------- bounds
MaxEntries == 2
MaxLines == 5
MaxUrlLen == 62

\* ---------------------------------------------------------------- values
Str(s) == [t |-> "str", v |-> s]
Num(n) == [t |-> "int", v |-> <<n>>]
Null == [t |-> "NoneType", v |-> <<>>]
List(s) == [t |-> "list", v |-> s]
\* "key not in dict"
Absent == [t |-> "absent", v |-> <<>>]

Min(a, b) == IF a < b THEN a ELSE b
Max(a, b) == IF a > b THEN a ELSE b

\* Python truth value of a parsed JSON value (the tests "if url:", "if name:")
Truthy_EmptyStrOnly(val) == val # Str(<<>>)
Truthy(val) ==
    CASE val.t = "str" -> Len(val.v) > 0
      [] val.t = "int" -> val.v[1] # 0
      [] val.t = "NoneType" -> FALSE
      [] val.t = "list" -> Len(val.v) > 0
      [] OTHER -> FALSE

\* a list cannot be a dict key: url_index[url] raises TypeError
Hashable(val) == val.t # "list"

\* len(url) raises TypeError for int and None
HasLen(val) == val.t \in {"str", "list"}

\* model.get(key, default)
Get(model, key, default) == IF model[key] = Absent THEN default ELSE model[key]

\* key in model
Has(model, key) == model[key] # Absent

\* isinstance(model, dict)
IsDictEntry_Always(model) == TRUE
IsDictEntry(model) == model.type = "dict"

required_fields == <<"model_name", "url", "directory">>

\* the literal 'unknown' of line 84
Unknown == Str(<<117, 110, 107, 110, 111, 119, 110>>)

\* ------------------------------------------------------- the entry pass
\* One issue of the list `issues`: the position, what is wrong, and the value
\* cited (the raw entry, or model.get('model_name', 'unknown')).
NotObjectIssue(i, model) == [pos |-> i, kind |-> "not_object", field |-> "", cite |-> model.raw]
MissingIssue(i, model, field) ==
    [pos |-> i, kind |-> "missing", field |-> field, cite |-> Get(model, "model_name", Unknown)]

\* lines 82-84: the issues of the required fields absent from a dict entry
MissingIssues(i, model) ==
    LET Present(k) == Has(model, required_fields[k])
        F[k \in 0..Len(required_fields)] ==
            IF k = 0 THEN <<>>
            ELSE IF Present(k) THEN F[k - 1]
                 ELSE Append(F[k - 1], MissingIssue(i, model, required_fields[k]))
    IN F[Len(required_fields)]

\* A defaultdict(list) in insertion order: a sequence of [key, entries].
KeysOf(index) == {index[k].key : k \in 1..Len(index)}

\* index[key].append(item): the key is created on first access
IndexAppend_Twice(index, key, item) ==
    IF key \in KeysOf(index)
    THEN [k \in 1..Len(index) |->
            IF index[k].key = key
            THEN [key |-> key, entries |-> Append(Append(index[k].entries, item), item)]
            ELSE index[k]]
    ELSE Append(index, [key |-> key, entries |-> <<item, item>>])
IndexAppend(index, key, item) ==
    IF key \in KeysOf(index)
    THEN [k \in 1..Len(index) |->
            IF index[k].key = key
            THEN [key |-> key, entries |-> Append(index[k].entries, item)]
            ELSE index[k]]
    ELSE Append(index, [key |-> key, entries |-> <<item>>])

\* lines 96 and 99: {k: entries for k, entries in index.items() if len(entries) > 1}
Duplicates_MoreThanTwo(index) == SelectSeq(index, LAMBDA g : Len(g.entries) > 2)
Duplicates_AtLeastOne(index) == SelectSeq(index, LAMBDA g : Len(g.entries) > 0)
Duplicates(index) == SelectSeq(index, LAMBDA g : Len(g.entries) > 1)

\* line 125: url if len(url) < 60 else url[:57] + "..."
Ellipsis == <<46, 46, 46>>
display_url(url) ==
    IF Len(url.v) < 60 THEN url
    ELSE Str(SubSeq(url.v, 1, 57) \o Ellipsis)

\* line 125 raises TypeError when url has no len(), or is a list being
\* concatenated with a str
Displayable(url) == HasLen(url) /\ (url.t = "str" \/ Len(url.v) < 60)

\* lines 41-42: the bounds of range(start, end) over the 0-based line indices
ContextStart(lineno) == Max(0, lineno - 3)
ContextEnd_OneAfter(nlines, lineno) == Min(nlines, lineno + 1)
ContextEnd(nlines, lineno) == Min(nlines, lineno + 2)

\* lines 45-47: the printed context, one [line, marked] per index of the range
Context(nlines, lineno) ==
    [k \in 1..Max(0, ContextEnd(nlines, lineno) - ContextStart(lineno)) |->
        LET i == ContextStart(lineno) + k - 1
        IN [line |-> i + 1, marked |-> (i = lineno - 1)]]

\* ---------------------------------------------------------------- inputs
StrEmpty == Str(<<>>)
StrSpace == Str(<<32>>)
StrU == Str(<<117>>)
StrA == Str(<<97>>)
StrB == Str(<<98>>)
StrD == Str(<<100>>)

\* the values a field is drawn from: absent, the empty string, a
\* whitespace-only string, ordinary strings, a falsy value that is not a
\* string (0, null), and a list, which is truthy and unhashable
UrlValues == {Absent, StrEmpty, StrSpace, StrU, Num(0), List(<<1>>)}
NameValues == {Absent, StrEmpty, StrA, StrB, Null, List(<<1>>)}

DictEntry(name, url, dir) ==
    [type |-> "dict", raw |-> Absent, model_name |-> name, url |-> url, directory |-> dir]
RawEntry(val) ==
    [type |-> val.t, raw |-> val, model_name |-> Absent, url |-> Absent, directory |-> Absent]

\* the entries a manifest is built from: every url/name combination with a
\* directory, a few without one, and an entry that is not an object
Entries ==
    {DictEntry(n, u, StrD) : n \in NameValues, u \in UrlValues}
    \cup {DictEntry(n, u, Absent) : n \in {Absent, StrA}, u \in {Absent, StrU}}
    \cup {RawEntry(Num(7))}

\* a url of n characters, all different from their neighbours
UrlOfLen(n) == Str([k \in 1..n |-> 97 + (k % 26)])

\* two entries of one name, so that the duplicate-name report shows their
\* urls: the first of every length up to MaxUrlLen
LongUrlManifests ==
    {<<DictEntry(StrA, UrlOfLen(n), StrD), DictEntry(StrA, StrU, StrD)>> : n \in 0..MaxUrlLen}

SeqsUpTo(S, n) == UNION {[1..k -> S] : k \in 0..n}

\* a parsed document: the type of the root, whether it has the key 'models',
\* the type of data['models'] and its items
Root(type, has_models, models_type, items) ==
    [type |-> type, has_models |-> has_models, models_type |-> models_type, models |-> items]
NoData == Root("none", FALSE, "none", <<>>)
Documents ==
    {Root(t, FALSE, "none", <<>>) : t \in {"list", "str", "dict"}}
    \cup {Root("dict", TRUE, t, <<>>) : t \in {"dict", "NoneType"}}
    \cup {Root("dict", TRUE, "list", ms) : ms \in SeqsUpTo(Entries, MaxEntries)}
    \cup {Root("dict", TRUE, "list", ms) : ms \in LongUrlManifests}

\* ----------------------------------------------------------------- state
VARIABLES
    pc,               \* the statement validate_models / main is about to run
    file,             \* "missing", "unreadable" or "readable"
    error,            \* the JSONDecodeError: [lineno, nlines], or NoError
    data,             \* the value json.loads returned
    models,           \* data['models']
    i,                \* number of entries the loop of line 76 has finished
    examined,         \* the positions the loop has taken up, in order
    issues,
    url_index,
    name_index,
    duplicate_urls,
    duplicate_names,
    stages,           \* the stages run so far, in order
    out,              \* what was printed: the headings, in order
    context,          \* the context lines printed after a syntax error
    shown,            \* the [idx, url] lines of the duplicate-name report
    summary,          \* the three counts of the summary, or <<>>
    total,            \* the count printed as "Total models", -1 before
    result,           \* "none", "True", "False", or "TypeError" (raised)
    exit_code         \* the process exit code, -1 while running

vars == <<pc, file, error, data, models, i, examined, issues, url_index, name_index,
          duplicate_urls, duplicate_names, stages, out, context, shown, summary,
          total, result, exit_code>>

NoError == [lineno |-> 0, nlines |-> 0]

Init ==
    /\ pc = "exists"
    /\ file \in {"missing", "unreadable", "readable"}
    /\ error = NoError
    /\ data = NoData
    /\ models = <<>>
    /\ i = 0
    /\ examined = <<>>
    /\ issues = <<>>
    /\ url_index = <<>>
    /\ name_index = <<>>
    /\ duplicate_urls = <<>>
    /\ duplicate_names = <<>>
    /\ stages = <<>>
    /\ out = <<>>
    /\ context = <<>>
    /\ shown = <<>>
    /\ summary = <<>>
    /\ total = -1
    /\ result = "none"
    /\ exit_code = -1

passVars == <<i, examined, issues, url_index, name_index>>
dupVars == <<duplicate_urls, duplicate_names>>
reportVars == <<context, shown, summary, total>>

\* return False
Fail(tag) ==
    /\ out' = Append(out, tag)
    /\ result' = "False"
    /\ pc' = "ended"

\* lines 19-22
CheckExists ==
    /\ pc = "exists"
    /\ stages' = Append(stages, "exists")
    /\ IF file = "missing"
       THEN Fail("not_found")
       ELSE pc' = "read" /\ UNCHANGED <<out, result>>
    /\ UNCHANGED <<file, error, data, models, passVars, dupVars, reportVars, exit_code>>

\* lines 25-30
ReadFile ==
    /\ pc = "read"
    /\ stages' = Append(stages, "read")
    /\ IF file = "unreadable"
       THEN Fail("read_error")
       ELSE pc' = "parse" /\ UNCHANGED <<out, result>>
    /\ UNCHANGED <<file, error, data, models, passVars, dupVars, reportVars, exit_code>>

\* lines 33-51: json.loads either raises JSONDecodeError at a line of the
\* content, or returns the parsed document
ParseError ==
    /\ pc = "parse"
    /\ stages' = Append(stages, "parse")
    /\ \E nlines \in 1..MaxLines : \E lineno \in 1..nlines :
          /\ error' = [lineno |-> lineno, nlines |-> nlines]
          /\ context' = Context(nlines, lineno)
    /\ Fail("syntax_error")
    /\ UNCHANGED <<file, data, models, passVars, dupVars, shown, summary, total, exit_code>>

ParseOk ==
    /\ pc = "parse"
    /\ stages' = Append(stages, "parse")
    /\ data' \in Documents
    /\ out' = Append(out, "syntax_ok")
    /\ pc' = "root"
    /\ UNCHANGED <<file, error, models, passVars, dupVars, reportVars, result, exit_code>>

CheckRoot_NoReturn ==
    /\ pc = "root"
    /\ stages' = Append(stages, "root")
    /\ IF data.type # "dict"
       THEN out' = Append(out, "root_not_object")
       ELSE UNCHANGED out
    /\ pc' = "key"
    /\ UNCHANGED <<file, error, data, models, passVars, dupVars, reportVars, result, exit_code>>

\* lines 54-56
CheckRoot ==
    /\ pc = "root"
    /\ stages' = Append(stages, "root")
    /\ IF data.type # "dict"
       THEN Fail("root_not_object")
       ELSE pc' = "key" /\ UNCHANGED <<out, result>>
    /\ UNCHANGED <<file, error, data, models, passVars, dupVars, reportVars, exit_code>>

\* lines 58-60
CheckModelsKey ==
    /\ pc = "key"
    /\ stages' = Append(stages, "key")
    /\ IF ~data.has_models
       THEN Fail("missing_models")
       ELSE pc' = "list" /\ UNCHANGED <<out, result>>
    /\ UNCHANGED <<file, error, data, models, passVars, dupVars, reportVars, exit_code>>

\* lines 62-74: the check of data['models'], then the entry pass is set up
CheckModelsList ==
    /\ pc = "list"
    /\ models' = data.models
    /\ IF data.models_type # "list"
       THEN /\ Fail("models_not_list")
            /\ stages' = Append(stages, "list")
            /\ UNCHANGED total
       ELSE /\ stages' = stages \o <<"list", "pass">>
            /\ out' = Append(out, "total")
            /\ total' = Len(data.models)
            /\ pc' = "pass"
            /\ UNCHANGED result
    /\ UNCHANGED <<file, error, data, passVars, dupVars, context, shown, summary, exit_code>>

\* lines 76-93: one iteration of the loop over enumerate(models).  An entry
\* whose truthy url or model_name is a list raises TypeError at line 91 or 93
\* (unhashable key); the exception leaves validate_models and main.
ProcessEntry ==
    /\ pc = "pass"
    /\ i < Len(models)
    /\ LET model == models[i + 1]
           url == Get(model, "url", StrEmpty)
           name == Get(model, "model_name", StrEmpty)
           url_raises == Truthy(url) /\ ~Hashable(url)
           name_raises == Truthy(name) /\ ~Hashable(name)
       IN /\ examined' = Append(examined, i)
          /\ IF ~IsDictEntry(model)
             THEN /\ issues' = Append(issues, NotObjectIssue(i, model))
                  /\ i' = i + 1
                  /\ UNCHANGED <<url_index, name_index, pc, result>>
             ELSE /\ issues' = issues \o MissingIssues(i, model)
                  /\ url_index' = IF Truthy(url) /\ ~url_raises
                                   THEN IndexAppend(url_index, url, <<i, name>>)
                                   ELSE url_index
                  /\ name_index' = IF Truthy(name) /\ ~url_raises /\ ~name_raises
                                    THEN IndexAppend(name_index, name, <<i, url>>)
                                    ELSE name_index
                  /\ IF url_raises \/ name_raises
                     THEN result' = "TypeError" /\ pc' = "ended" /\ UNCHANGED i
                     ELSE i' = i + 1 /\ UNCHANGED <<pc, result>>
    /\ UNCHANGED <<file, error, data, models, dupVars, stages, out, reportVars, exit_code>>

\* lines 95-99, once the loop is exhausted
Derive ==
    /\ pc = "pass"
    /\ i = Len(models)
    /\ duplicate_urls' = Duplicates(url_index)
    /\ duplicate_names' = Duplicates(name_index)
    /\ pc' = "report"
    /\ stages' = Append(stages, "derive")
    /\ UNCHANGED <<file, error, data, models, passVars, out, reportVars, result, exit_code>>

\* the (idx, url) pairs of lines 121-123, group after group
RECURSIVE Flatten(_)
Flatten(groups) ==
    IF groups = <<>> THEN <<>> ELSE Head(groups).entries \o Flatten(Tail(groups))

\* the pairs printed by line 126 before line 125 raises, if it does
Printable(pairs) ==
    LET bad == {k \in 1..Len(pairs) : ~Displayable(pairs[k][2])}
        n == IF bad = {} THEN Len(pairs)
             ELSE (CHOOSE k \in bad : \A m \in bad : k <= m) - 1
    IN SubSeq(pairs, 1, n)

\* lines 101-137
Report ==
    /\ pc = "report"
    /\ LET pairs == Flatten(duplicate_names)
           raises == Len(Printable(pairs)) < Len(pairs)
           has_issues == issues # <<>> \/ duplicate_urls # <<>> \/ duplicate_names # <<>>
           headings == (IF issues # <<>> THEN <<"field_issues">> ELSE <<>>)
                       \o (IF duplicate_urls # <<>> THEN <<"duplicate_urls">> ELSE <<>>)
                       \o (IF duplicate_names # <<>> THEN <<"duplicate_names">> ELSE <<>>)
       IN /\ shown' = [k \in 1..Len(Printable(pairs)) |->
                         [idx |-> pairs[k][1], url |-> display_url(pairs[k][2])]]
          /\ IF raises
             THEN /\ out' = out \o headings
                  /\ result' = "TypeError"
                  /\ UNCHANGED summary
             ELSE IF ~has_issues
             THEN /\ out' = Append(out \o headings, "success")
                  /\ result' = "True"
                  /\ UNCHANGED summary
             ELSE /\ out' = Append(out \o headings, "summary")
                  /\ summary' = <<Len(issues), Len(duplicate_urls), Len(duplicate_names)>>
                  /\ result' = "False"
    /\ pc' = "ended"
    /\ stages' = Append(stages, "report")
    /\ UNCHANGED <<file, error, data, models, passVars, dupVars, context, total, exit_code>>

\* lines 149-150: sys.exit(0 if success else 1); an uncaught exception ends
\* the interpreter with status 1
Exit ==
    /\ pc = "ended"
    /\ exit_code' = IF result = "True" THEN 0 ELSE 1
    /\ pc' = "exited"
    /\ UNCHANGED <<file, error, data, models, passVars, dupVars, stages, out, reportVars, result>>

Next ==
    \/ CheckExists
    \/ ReadFile
    \/ ParseError
    \/ ParseOk
    \/ CheckRoot
    \/ CheckModelsKey
    \/ CheckModelsList
    \/ ProcessEntry
    \/ Derive
    \/ Report
    \/ Exit

Spec == Init /\ [][Next]_vars

\* ================================================================ claims
Range(seq) == {seq[k] : k \in 1..Len(seq)}
Finished == pc = "exited"
ReachedPass == "pass" \in Range(stages)
AllStages == <<"exists", "read", "parse", "root", "key", "list", "pass", "derive", "report">>
StagesTo(name) ==
    SubSeq(AllStages, 1, CHOOSE k \in 1..Len(AllStages) : AllStages[k] = name)
IsPrefix(s, t) == Len(s) <= Len(t) /\ s = SubSeq(t, 1, Len(s))
Last(seq) == seq[Len(seq)]

\* the positions stored under one key, in order, and those of a whole index
GroupPositions(g) == [k \in 1..Len(g.entries) |-> g.entries[k][1]]
PositionsOf(index) == UNION {Range(GroupPositions(g)) : g \in Range(index)}

\* ------------------------------------------------------------------- C1
\* C1: a run that reaches the entry pass exits 0 iff there is no field
\* issue, no duplicate-URL group and no duplicate-name group; otherwise it
\* exits 1 and the summary with the three counts is produced; exactly one of
\* the success message and the summary is produced.
C1_ExitAndSummary ==
    (Finished /\ ReachedPass) =>
        LET clean == /\ issues = <<>>
                     /\ Duplicates(url_index) = <<>>
                     /\ Duplicates(name_index) = <<>>
        IN /\ (exit_code = 0) <=> clean
           /\ ~clean => /\ exit_code = 1
                         /\ "summary" \in Range(out)
                         /\ summary = <<Len(issues), Len(Duplicates(url_index)),
                                         Len(Duplicates(name_index))>>
           /\ ("success" \in Range(out)) # ("summary" \in Range(out))

\* ------------------------------------------------------------------- C2
\* the run stopped in `stage`, printing `tag` last, with failure
Stopped(stage, tag) ==
    /\ stages = StagesTo(stage)
    /\ out # <<>> /\ Last(out) = tag
    /\ result = "False"
    /\ pc \in {"ended", "exited"}
    /\ exit_code \in {-1, 1}
NothingExamined ==
    /\ examined = <<>> /\ i = 0 /\ issues = <<>>
    /\ url_index = <<>> /\ name_index = <<>>
    /\ duplicate_urls = <<>> /\ duplicate_names = <<>>

\* C2: the stages run in the order exists, read, parse, root, key, list,
\* pass; the first stage that fails ends the run with failure and no later
\* stage runs: a syntax error is reported without any structural check, and
\* a bad root or 'models' value fails without any entry being examined, any
\* issue recorded or any index built.
C2_StagesInOrder ==
    /\ IsPrefix(stages, AllStages)
    /\ (file = "missing" /\ stages # <<>>) => Stopped("exists", "not_found")
    /\ (file = "unreadable" /\ "read" \in Range(stages)) => Stopped("read", "read_error")
    /\ error # NoError =>
          Stopped("parse", "syntax_error") /\ data = NoData /\ NothingExamined
    /\ ("root" \in Range(stages) /\ data.type # "dict") =>
          Stopped("root", "root_not_object") /\ NothingExamined
    /\ ("key" \in Range(stages) /\ ~data.has_models) =>
          Stopped("key", "missing_models") /\ NothingExamined
    /\ ("list" \in Range(stages) /\ data.models_type # "list") =>
          Stopped("list", "models_not_list") /\ NothingExamined

C2_Witness == Finished /\ "models_not_list" \in Range(out)

\* ------------------------------------------------------------------- C5
\* the context is the lines lo..hi, in order, line `lineno` alone marked
ContextIs(lo, hi) ==
    /\ Len(context) = hi - lo + 1
    /\ \A k \in 1..Len(context) :
          /\ context[k].line = lo + k - 1
          /\ context[k].marked <=> (context[k].line = error.lineno)
    /\ Cardinality({k \in 1..Len(context) : context[k].marked}) = 1

\* C5 (as stated): on a syntax error at line L of N lines the context is
\* exactly the lines max(1, L-2) .. min(N, L+1), line L alone is marked,
\* and the run fails.
C5_OneLineAfter ==
    error # NoError =>
        /\ ContextIs(Max(1, error.lineno - 2), Min(error.nlines, error.lineno + 1))
        /\ result = "False"

\* C5 (amended): the context is exactly the lines max(1, L-2) .. min(N, L+2),
\* up to two lines after the offending one; line L alone is marked, and the
\* run fails.
C5_TwoLinesAfter ==
    error # NoError =>
        /\ ContextIs(Max(1, error.lineno - 2), Min(error.nlines, error.lineno + 2))
        /\ result = "False"

C5_Witness ==
    /\ Finished
    /\ error.lineno >= 3 /\ error.nlines >= error.lineno + 2
    /\ Len(context) = 5

\* ------------------------------------------------------------------- C3
PositionsOfModels == 0..(Len(models) - 1)
EntryAt(p) == models[p + 1]
IsObject(p) == EntryAt(p).type = "dict"
\* what model.get(key, '') gives
OrEmpty(val) == IF val = Absent THEN Str(<<>>) ELSE val
\* the values Python treats as false: "", 0, None, []
FalsyValues == {Str(<<>>), Num(0), Null, List(<<>>)}
\* entries p and q are objects with the same 'url' value
ShareUrl(p, q) ==
    /\ p # q /\ IsObject(p) /\ IsObject(q)
    /\ EntryAt(p).url # Absent /\ EntryAt(p).url = EntryAt(q).url
\* `groups` has exactly one group keyed `key`, and it holds p and q
OneGroupWith(groups, key, p, q) ==
    /\ Cardinality({k \in 1..Len(groups) : groups[k].key = key}) = 1
    /\ \A k \in 1..Len(groups) :
          groups[k].key = key => {p, q} \subseteq Range(GroupPositions(groups[k]))

\* C3 (as stated, of the runs in which validate_models returns): two object
\* entries sharing the same 'url' value give exactly one duplicate-URL group
\* for that value, holding both positions, whatever their names; the result
\* is failure.
C3_OneGroupPerSharedUrl ==
    (Finished /\ ReachedPass /\ result \in {"True", "False"}) =>
        \A p, q \in PositionsOfModels :
            ShareUrl(p, q) =>
                /\ OneGroupWith(duplicate_urls, EntryAt(p).url, p, q)
                /\ exit_code = 1

\* C3 (amended): two object entries sharing the same truthy 'url' value (a
\* non-empty string; not "", 0, false or null): once the pass has completed
\* both, the url-index holds both positions under that one key, whatever
\* their names; the duplicate-URL groups, once derived, hold exactly one
\* group for the value, with both positions; the result is failure.
C3_OneGroupPerTruthyUrl ==
    \A p, q \in 0..(i - 1) :
        (ShareUrl(p, q) /\ EntryAt(p).url \notin FalsyValues) =>
            /\ OneGroupWith(url_index, EntryAt(p).url, p, q)
            /\ "derive" \in Range(stages) =>
                  OneGroupWith(duplicate_urls, EntryAt(p).url, p, q)
            /\ Finished => exit_code = 1

C3_Witness ==
    /\ Finished /\ Len(models) = 2
    /\ ShareUrl(0, 1) /\ EntryAt(0).url = StrU
    /\ EntryAt(0).model_name = Absent /\ EntryAt(1).model_name = StrA
    /\ Len(duplicate_urls) = 1 /\ "summary" \in Range(out)

\* ------------------------------------------------------------------- C4
\* C4: in the duplicate-name report the url shown is the entry's url
\* unchanged when it has at most 60 characters, and its first 57 characters
\* followed by "..." when it has more; what is shown never exceeds 60
\* characters.
C4_TruncateAbove60 ==
    \A k \in 1..Len(shown) :
        LET url == OrEmpty(EntryAt(shown[k].idx).url)
        IN /\ Len(url.v) <= 60 => shown[k].url = url
           /\ Len(url.v) > 60 => shown[k].url = Str(SubSeq(url.v, 1, 57) \o <<46, 46, 46>>)
           /\ Len(shown[k].url.v) <= 60

\* ------------------------------------------------------------------- C6
\* C6: for a schema-valid manifest all n entries are examined, in list
\* order, before the result is decided; the number of field issues is the
\* number of non-object entries plus the number of (object entry, absent
\* required field) pairs, and a missing-field issue cites the entry's
\* position and its model_name, or 'unknown' when that is absent.
C6_AllEntriesExamined ==
    (result # "none" /\ ReachedPass) =>
        /\ examined = [k \in 1..Len(models) |-> k - 1]
        /\ Len(issues) =
              Cardinality({p \in PositionsOfModels : ~IsObject(p)})
              + Cardinality({pf \in PositionsOfModels \X {"model_name", "url", "directory"} :
                              IsObject(pf[1]) /\ EntryAt(pf[1])[pf[2]] = Absent})
        /\ \A k \in 1..Len(issues) :
              issues[k].kind = "missing" =>
                  /\ issues[k].pos \in PositionsOfModels
                  /\ EntryAt(issues[k].pos)[issues[k].field] = Absent
                  /\ issues[k].cite =
                        IF EntryAt(issues[k].pos).model_name = Absent
                        THEN Str(<<117, 110, 107, 110, 111, 119, 110>>)
                        ELSE EntryAt(issues[k].pos).model_name

\* ------------------------------------------------------------------- C7
NonEmptyString(val) == val.t = "str" /\ val.v # <<>>
\* every entry an object with the three fields, its url and model_name
\* non-empty strings, no url and no model_name occurring twice
WellFormed(ms) ==
    /\ \A k \in 1..Len(ms) :
          /\ ms[k].type = "dict"
          /\ NonEmptyString(ms[k].url) /\ NonEmptyString(ms[k].model_name)
          /\ ms[k].directory # Absent
    /\ \A k, m \in 1..Len(ms) :
          k # m => ms[k].url # ms[m].url /\ ms[k].model_name # ms[m].model_name

\* C7: a manifest whose entries are all objects with the three required
\* fields, with non-empty, pairwise distinct url strings and non-empty,
\* pairwise distinct model_name strings, gives no field issue, no duplicate
\* group of either kind and exit code 0; the count reported is the length
\* of the list, 0 for the empty list.
C7_WellFormedManifestPasses ==
    (Finished /\ ReachedPass /\ WellFormed(models)) =>
        /\ issues = <<>> /\ duplicate_urls = <<>> /\ duplicate_names = <<>>
        /\ result = "True" /\ exit_code = 0
        /\ Last(out) = "success" /\ summary = <<>>
        /\ total = Len(models)

C7_Witness ==
    /\ Finished /\ Len(models) = 2 /\ WellFormed(models)
    /\ EntryAt(0).url = StrSpace /\ EntryAt(1).url = StrU
    /\ exit_code = 0

\* ------------------------------------------------------------------- C8
\* position p is stored in `index` under the key `key` with `other`
StoredAs(index, p, key, other) ==
    \E k \in 1..Len(index) :
        index[k].key = key /\ <<p, other>> \in Range(index[k].entries)

\* C8 (as stated): an object entry's url is in the url-index iff the key is
\* present and the value is not the empty string, and likewise its
\* model_name in the name-index: only "" is excluded, so 0, false and null
\* are indexed.
C8_OnlyEmptyStringExcluded ==
    \A p \in 0..(i - 1) :
        IsObject(p) =>
            /\ p \in PositionsOf(url_index) <=>
                  (EntryAt(p).url # Absent /\ EntryAt(p).url # Str(<<>>))
            /\ p \in PositionsOf(name_index) <=>
                  (EntryAt(p).model_name # Absent /\ EntryAt(p).model_name # Str(<<>>))

\* C8 (amended): for an object entry the pass has completed, the url is in
\* the url-index iff the key is present and the value is truthy, and
\* likewise the model_name in the name-index: "", 0, false and null are
\* excluded, every other present value (a whitespace-only string too) is
\* stored under the value itself, unchanged, with the entry's other value,
\* or "" when that key is absent.
C8_TruthyValuesIndexed ==
    \A p \in 0..(i - 1) :
        IsObject(p) =>
            LET url == EntryAt(p).url
                name == EntryAt(p).model_name
            IN /\ p \in PositionsOf(url_index) <=>
                     (url # Absent /\ url \notin FalsyValues)
               /\ p \in PositionsOf(url_index) =>
                     StoredAs(url_index, p, url, OrEmpty(name))
               /\ p \in PositionsOf(name_index) <=>
                     (name # Absent /\ name \notin FalsyValues)
               /\ p \in PositionsOf(name_index) =>
                     StoredAs(name_index, p, name, OrEmpty(url))

C8_Witness ==
    /\ i = 2
    /\ IsObject(0) /\ EntryAt(0).url = StrSpace /\ EntryAt(0).model_name = Null
    /\ IsObject(1) /\ EntryAt(1).url = Num(0) /\ EntryAt(1).model_name = Absent
    /\ url_index = <<[key |-> StrSpace, entries |-> << <<0, Null>> >>]>>
    /\ name_index = <<>>

\* ------------------------------------------------------------------- C9
\* C9: an entry that is not an object adds exactly one issue, citing its
\* position and raw value, and nothing else: no missing-field issue, no
\* change to the url-index or the name-index; the pass goes on to the next
\* entry.
C9_NonObjectEntrySkipped ==
    [][(pc = "pass" /\ i < Len(models) /\ EntryAt(i).type # "dict") =>
          /\ issues' = Append(issues, [pos |-> i, kind |-> "not_object", field |-> "",
                                         cite |-> EntryAt(i).raw])
          /\ url_index' = url_index /\ name_index' = name_index
          /\ examined' = Append(examined, i)
          /\ i' = i + 1 /\ pc' = "pass" /\ result' = "none"]_vars

C9_Witness ==
    /\ Len(models) = 2 /\ i = 2 /\ pc = "pass"
    /\ ~IsObject(0) /\ IsObject(1)
    /\ issues = <<[pos |-> 0, kind |-> "not_object", field |-> "", cite |-> Num(7)]>>
    /\ PositionsOf(url_index) = {1} /\ PositionsOf(name_index) = {1}

\* ------------------------------------------------------------------ C10
StrictlyIncreasing(seq) == \A k \in 1..(Len(seq) - 1) : seq[k] < seq[k + 1]
GroupsOfSeveral(index) == {k \in 1..Len(index) : Len(index[k].entries) > 1}
IndexWellFormed(index) ==
    /\ \A p \in PositionsOf(index) : p < Len(examined)
    /\ \A k \in 1..Len(index) :
          /\ index[k].entries # <<>>
          /\ StrictlyIncreasing(GroupPositions(index[k]))
          /\ \A m \in 1..Len(index) :
                k # m => /\ index[k].key # index[m].key
                         /\ Range(GroupPositions(index[k]))
                              \cap Range(GroupPositions(index[m])) = {}
    /\ 2 * Cardinality(GroupsOfSeveral(index)) <= Len(models)

\* C10: throughout the pass every position stored in either index is that of
\* an entry already taken up, occurs once in the whole index, the positions
\* under a key increase strictly, no key has an empty list, and there are at
\* most floor(n/2) duplicate groups of either kind.
C10_IndexInvariant ==
    /\ IndexWellFormed(url_index)
    /\ IndexWellFormed(name_index)
    /\ 2 * Len(duplicate_urls) <= Len(models)
    /\ 2 * Len(duplicate_names) <= Len(models)

C10_Witness ==
    /\ Len(models) = 2 /\ i = 2
    /\ Len(url_index) = 1 /\ GroupPositions(url_index[1]) = <<0, 1>>
    /\ Len(name_index) = 2
    /\ Len(duplicate_urls) = 1

====
